---- MODULE Spec2Model ----
(***************************************************************************)
(* Model of src/trends_collector.py: the TrendsCollector class and main(). *)
(*                                                                         *)
(* Python dicts are functions whose domain is the set of keys present.     *)
(* Python lists are sequences.  File names are sequences of characters so  *)
(* that str.replace is modelled character by character.                    *)
(***************************************************************************)
EXTENDS Integers, Sequences, FiniteSets, TLC

VARIABLES
    pc,               \* position of the single thread of control
    config_file,      \* what is on disk at the configured path
    config,           \* self.config
    all_data,         \* the aggregate built by collect_all_trends
    i,                \* loop index of collect_all_trends (0-based)
    results,          \* outcome of the last search.get_dict() call
    trending_data,    \* last record returned by collect_trending_searches
    filename,         \* save_to_json: path of the full file
    simple_filename,  \* save_to_json: path of the simplified file
    simple_data,      \* save_to_json: create_simple_format(data)
    writes,           \* files written so far, in order
    clock,            \* time spent in time.sleep
    events,           \* history of API calls, appends and sleeps
    outcomes,         \* history of the API outcomes, one per call
    failure,          \* the exception that ended the run, or "none"
    stoppedAt         \* pc at which the run was interrupted or failed

vars == <<pc, config_file, config, all_data, i, results, trending_data,
          filename, simple_filename, simple_data, writes, clock, events,
          outcomes, failure, stoppedAt>>

----------------------------------------------------------------------------
(* Bounds *)

MaxRegions == 2      \* longest configured region list
MaxItems == 3        \* longest trending_searches list given to the normalizer
MaxChunks == 3       \* number of chunks an output path is built from

----------------------------------------------------------------------------
(* Python helpers *)

EmptyDict == [k \in {} |-> 0]

PyNone == "None"

Has(d, k) == k \in DOMAIN d

Get(d, k, default) == IF k \in DOMAIN d THEN d[k] ELSE default

Put(d, k, v) == (k :> v) @@ d

Min(a, b) == IF a < b THEN a ELSE b

Max(a, b) == IF a > b THEN a ELSE b

\* list[:count + 1]: one item too many
PySliceOffByOne(list, count) ==
    IF count >= 0
    THEN SubSeq(list, 1, Min(count + 1, Len(list)))
    ELSE SubSeq(list, 1, Max(Len(list) + count + 1, 0))

\* list[:count]
PySlice(list, count) ==
    IF count >= 0
    THEN SubSeq(list, 1, Min(count, Len(list)))
    ELSE SubSeq(list, 1, Max(Len(list) + count, 0))

\* A list item that is not a mapping (it has no .get)
NonMapping == [nonmapping |-> "str"]

IsMapping(x) == ~ Has(x, "nonmapping")

\* str.replace(old, new): every non-overlapping occurrence, left to right
RECURSIVE StrReplace(_, _, _)
StrReplace(s, old, new) ==
    IF Len(s) < Len(old) THEN s
    ELSE IF SubSeq(s, 1, Len(old)) = old
         THEN new \o StrReplace(SubSeq(s, Len(old) + 1, Len(s)), old, new)
         ELSE <<Head(s)>> \o StrReplace(Tail(s), old, new)

----------------------------------------------------------------------------
(* Program constants *)

DefaultCount == 20

SleepAfterCall == 2

SleepBetweenRegions == 3

Source == "SerpAPI Google Trends"

Note == "Global trending searches (region-specific may not be available)"

NoDataError == "Brak danych w odpowiedzi SerpAPI"

DefaultTimeframe == "today 3-m"

DotJson == <<".", "j", "s", "o", "n">>

SimpleDotJson == <<"_", "s", "i", "m", "p", "l", "e">> \o DotJson

DefaultOutputFile ==
    <<"t", "r", "e", "n", "d", "s", "_", "d", "a", "t", "a">> \o DotJson

----------------------------------------------------------------------------
(* collect_trending_searches *)

\* the dict built for one item of the response
trend_data(trend) ==
    [query               |-> Get(trend, "query", ""),
     search_volume       |-> Get(trend, "search_volume", 0),
     increase_percentage |-> Get(trend, "increase_percentage", 0),
     active              |-> Get(trend, "active", TRUE),
     categories          |-> Get(trend, "categories", <<>>),
     related_queries     |-> Get(trend, "trend_breakdown", <<>>),
     start_timestamp     |-> Get(trend, "start_timestamp", 0)]

\* the except branch returning the skeleton of the try branch with the error
except_record_with_list(region_code, region_name, msg, now) ==
    [region_name       |-> region_name,
     region_code       |-> region_code,
     error             |-> msg,
     collection_time   |-> now,
     trending_searches |-> <<>>,
     source            |-> Source]

\* the dict returned by the except branch
except_record(region_code, region_name, msg, now) ==
    [region_name     |-> region_name,
     region_code     |-> region_code,
     error           |-> msg,
     collection_time |-> now,
     source          |-> Source]

\* results.get('error') copied whether or not the key is there
no_data_record_always_api_error(base, response) ==
    Put(Put(base, "error", NoDataError), "api_error",
        Get(response, "error", PyNone))

\* the else branch: the response has no trending_searches key
no_data_record(base, response) ==
    LET withError == Put(base, "error", NoDataError)
    IN IF Has(response, "error")
       THEN Put(withError, "api_error", response.error)
       ELSE withError

\* outcome is what search.get_dict() did: [raises |-> message] or
\* [returns |-> response dict]
collect_trending_searches(cfg, region_code, region_name, outcome, now) ==
    IF Has(outcome, "raises")
    THEN except_record(region_code, region_name, outcome.raises, now)
    ELSE
      LET response == outcome.returns
          base == [region_name       |-> region_name,
                   region_code       |-> region_code,
                   collection_time   |-> now,
                   trending_searches |-> <<>>,
                   source            |-> Source,
                   note              |-> Note]
      IN IF Has(response, "trending_searches")
         THEN LET count == Get(Get(cfg, "trending_searches", EmptyDict),
                               "count", DefaultCount)
                  trending_list == PySlice(response.trending_searches, count)
              IN IF \E j \in 1..Len(trending_list) :
                         ~ IsMapping(trending_list[j])
                 THEN except_record(region_code, region_name,
                        "'str' object has no attribute 'get'", now)
                 ELSE [base EXCEPT !.trending_searches =
                         [j \in 1..Len(trending_list) |->
                             trend_data(trending_list[j])]]
         ELSE no_data_record(base, response)

----------------------------------------------------------------------------
(* create_simple_format *)

\* the last category instead of the first
category_last(trend) ==
    IF Has(trend, "categories") /\ Len(trend.categories) > 0
    THEN Get(trend.categories[Len(trend.categories)], "name", "Unknown")
    ELSE "Unknown"

category(trend) ==
    IF Has(trend, "categories") /\ Len(trend.categories) > 0
    THEN Get(trend.categories[1], "name", "Unknown")
    ELSE "Unknown"

trending_query(trend) ==
    [query               |-> Get(trend, "query", PyNone),
     search_volume       |-> Get(trend, "search_volume", PyNone),
     increase_percentage |-> Get(trend, "increase_percentage", PyNone),
     category            |-> category(trend)]

region_trends(region_data) ==
    LET searches == Get(region_data, "trending_searches", <<>>)
    IN [region_name      |-> Get(region_data, "region_name", PyNone),
        region_code      |-> Get(region_data, "region_code", PyNone),
        trending_queries |-> [j \in 1..Len(searches) |->
                                 trending_query(searches[j])]]

create_simple_format(data) ==
    LET regionList == Get(data, "trending_searches_data", <<>>)
    IN [collection_time |-> Get(Get(data, "metadata", EmptyDict),
                                "collection_time", PyNone),
        regions |-> [k \in 1..Len(regionList) |->
                        region_trends(regionList[k])]]

\* save_to_json line 229
simple_name(name) == StrReplace(name, DotJson, SimpleDotJson)

----------------------------------------------------------------------------
(* Inputs: configuration documents, API outcomes, output paths *)

SeqsUpTo(S, n) == UNION {[1..m -> S] : m \in 0..n}

Poland == [name |-> "Poland", code |-> "PL"]

Germany == [name |-> "Germany", code |-> "DE"]

Regions == {Poland, Germany}

ItemA == [query |-> "a", search_volume |-> 10]

ItemB == [query |-> "b", categories |-> <<>>]

ItemC == [query |-> "c",
          categories |-> <<[name |-> "News"], [name |-> "Sports"]>>]

ItemD == [categories |-> <<[id |-> 7]>>]

Items == {ItemA, ItemB, ItemC, ItemD, NonMapping}

ApiErrors == {"Invalid API key", "Quota exceeded"}

\* what search.get_dict() can do
Outcomes(items, n) ==
    {[raises |-> "Connection error"]}
    \cup {[returns |-> r] : r \in {EmptyDict} \cup {("error" :> e) : e \in ApiErrors}}
    \cup {[returns |-> ("trending_searches" :> l)] : l \in SeqsUpTo(items, n)}

\* the answers given inside a whole run
RunOutcomes ==
    {[raises |-> "Connection error"],
     [returns |-> EmptyDict],
     [returns |-> ("error" :> "Invalid API key")]}
    \cup {[returns |-> ("trending_searches" :> l)] :
            l \in {<<>>, <<ItemA>>, <<ItemC, ItemD>>, <<NonMapping>>,
                   <<ItemB, NonMapping>>}}

NoOutcome == [pending |-> TRUE]

KeyOpts == {EmptyDict, ("serpapi_key" :> ""), ("serpapi_key" :> "k")}

KeywordOpts == {EmptyDict, ("keywords" :> <<"python">>)}

RegionOpts ==
    {EmptyDict} \cup {("regions" :> l) : l \in SeqsUpTo(Regions, MaxRegions)}

TimeframeOpts == {EmptyDict, ("timeframe" :> "now 7-d")}

TrendingOpts ==
    {EmptyDict}
    \cup {("trending_searches" :> t) :
            t \in {[enabled |-> FALSE], [enabled |-> TRUE],
                   [enabled |-> TRUE, count |-> 1]}}

OutTxt == <<"o", ".", "t", "x", "t">>

Chunks == {<<"a">>, <<"/">>, DotJson, <<".", "t", "x", "t">>,
           <<".", "j", "s">>, <<"o", "n">>}

RECURSIVE Flatten(_)
Flatten(chunks) ==
    IF chunks = <<>> THEN <<>> ELSE Head(chunks) \o Flatten(Tail(chunks))

\* output paths: one to MaxChunks chunks
Paths == {Flatten(cs) : cs \in SeqsUpTo(Chunks, MaxChunks) \ {<<>>}}

\* count values around the list lengths, negative ones included
Counts == (0 - 2)..(MaxItems + 1)

OutputOpts == {EmptyDict, ("output_file" :> OutTxt)}

Configs ==
    {k @@ kw @@ rg @@ tf @@ ts @@ out :
        k \in KeyOpts, kw \in KeywordOpts, rg \in RegionOpts,
        tf \in TimeframeOpts, ts \in TrendingOpts, out \in OutputOpts}

FileStates ==
    {[status |-> s] : s \in {"missing", "malformed", "empty"}}
    \cup {[status |-> "ok", doc |-> c] : c \in Configs}

----------------------------------------------------------------------------
(* The run: main() -> TrendsCollector() -> run() *)

Init ==
    /\ pc = "main"
    /\ config_file \in FileStates
    /\ config = EmptyDict
    /\ all_data = EmptyDict
    /\ i = 0
    /\ results = NoOutcome
    /\ trending_data = EmptyDict
    /\ filename = <<>>
    /\ simple_filename = <<>>
    /\ simple_data = EmptyDict
    /\ writes = <<>>
    /\ clock = 0
    /\ events = <<>>
    /\ outcomes = <<>>
    /\ failure = "none"
    /\ stoppedAt = "none"

\* an exception reaches main(): exit(1)
Fail(exc) ==
    /\ pc' = "failed"
    /\ failure' = exc
    /\ stoppedAt' = pc

\* an entry of the history: what happened, to which region index or for how
\* long, and the time slept before it
Event(kind, arg) == [kind |-> kind, arg |-> arg, at |-> clock]

trending_enabled ==
    Get(Get(config, "trending_searches", EmptyDict), "enabled", FALSE)

regions == config["regions"]

\* collect_all_trends: all_data before the loop
new_all_data(cfg, now) ==
    [metadata |->
        [collection_time |-> now,
         keywords |-> cfg["keywords"],
         total_regions |-> Len(cfg["regions"]),
         timeframe |-> Get(cfg, "timeframe", DefaultTimeframe),
         trending_searches_enabled |->
             Get(Get(cfg, "trending_searches", EmptyDict), "enabled", FALSE),
         source |-> Source,
         api_usage_note |-> "Each request uses your SerpAPI quota"],
     trending_searches_data |-> <<>>]

\* a missing key that is logged and not raised
TrendsCollector_init_no_raise ==
    /\ pc = "main"
    /\ IF config_file.status = "missing"
       THEN Fail("FileNotFoundError") /\ UNCHANGED config
       ELSE IF config_file.status = "malformed"
       THEN Fail("YAMLError") /\ UNCHANGED config
       ELSE IF config_file.status = "empty"
       THEN Fail("AttributeError") /\ UNCHANGED config
       ELSE /\ config' = config_file.doc
            /\ pc' = "run"
            /\ failure' = IF Get(config_file.doc, "serpapi_key", "") = ""
                          THEN "ValueError" ELSE failure
            /\ UNCHANGED stoppedAt
    /\ UNCHANGED <<config_file, all_data, i, results, trending_data,
                   filename, simple_filename, simple_data, writes, clock,
                   events, outcomes>>

\* TrendsCollector.__init__ with load_config
TrendsCollector_init ==
    /\ pc = "main"
    /\ IF config_file.status = "missing"
       THEN Fail("FileNotFoundError") /\ UNCHANGED config
       ELSE IF config_file.status = "malformed"
       THEN Fail("YAMLError") /\ UNCHANGED config
       ELSE IF config_file.status = "empty"
       THEN Fail("AttributeError") /\ UNCHANGED config
       ELSE /\ config' = config_file.doc
            /\ IF Get(config_file.doc, "serpapi_key", "") = ""
               THEN Fail("ValueError")
               ELSE pc' = "run" /\ UNCHANGED <<failure, stoppedAt>>
    /\ UNCHANGED <<config_file, all_data, i, results, trending_data,
                   filename, simple_filename, simple_data, writes, clock,
                   events, outcomes>>

\* collect_all_trends up to the loop
collect_all_trends_begin ==
    /\ pc = "run"
    /\ IF ~ Has(config, "keywords") \/ ~ Has(config, "regions")
       THEN Fail("KeyError") /\ UNCHANGED <<all_data, i>>
       ELSE /\ all_data' = new_all_data(config, clock)
            /\ i' = 0
            /\ pc' = "loop"
            /\ UNCHANGED <<failure, stoppedAt>>
    /\ UNCHANGED <<config_file, config, results, trending_data, filename,
                   simple_filename, simple_data, writes, clock, events,
                   outcomes>>

\* the loop is over: return all_data
collect_all_trends_return ==
    /\ pc = "loop"
    /\ i >= Len(regions)
    /\ pc' = "save"
    /\ UNCHANGED <<config_file, config, all_data, i, results, trending_data,
                   filename, simple_filename, simple_data, writes, clock,
                   events, outcomes, failure, stoppedAt>>

\* trending disabled: the region is only logged
skip_region ==
    /\ pc = "loop"
    /\ i < Len(regions)
    /\ ~ trending_enabled
    /\ events' = Append(events, Event("region", i))
    /\ pc' = "region_end"
    /\ UNCHANGED <<config_file, config, all_data, i, results, trending_data,
                   filename, simple_filename, simple_data, writes, clock,
                   outcomes, failure, stoppedAt>>

\* collect_trending_searches: GoogleSearch(params).get_dict()
call_api ==
    /\ pc = "loop"
    /\ i < Len(regions)
    /\ trending_enabled
    /\ \E outcome \in RunOutcomes :
          /\ results' = outcome
          /\ outcomes' = Append(outcomes, outcome)
    /\ events' = events \o <<Event("region", i), Event("call", i)>>
    /\ pc' = "called"
    /\ UNCHANGED <<config_file, config, all_data, i, trending_data, filename,
                   simple_filename, simple_data, writes, clock, failure,
                   stoppedAt>>

\* records that carry an error are dropped instead of appended
append_trending_data_skip_errors ==
    /\ pc = "called"
    /\ LET region == regions[i + 1]
           record == collect_trending_searches(config, region["code"],
                         region["name"], results, clock)
       IN /\ trending_data' = record
          /\ all_data' = IF Has(record, "error") THEN all_data
                         ELSE [all_data EXCEPT !.trending_searches_data =
                                  Append(@, record)]
    /\ events' = Append(events, Event("append", i))
    /\ pc' = "sleep"
    /\ UNCHANGED <<config_file, config, i, results, filename,
                   simple_filename, simple_data, writes, clock, outcomes,
                   failure, stoppedAt>>

\* the full file is rewritten after every region
append_trending_data_saving ==
    /\ pc = "called"
    /\ LET region == regions[i + 1]
           record == collect_trending_searches(config, region["code"],
                         region["name"], results, clock)
       IN /\ trending_data' = record
          /\ all_data' = [all_data EXCEPT !.trending_searches_data =
                             Append(@, record)]
    /\ writes' = Append(writes,
                    [path |-> Get(config, "output_file", DefaultOutputFile),
                     kind |-> "full"])
    /\ events' = Append(events, Event("append", i))
    /\ pc' = "sleep"
    /\ UNCHANGED <<config_file, config, i, results, filename,
                   simple_filename, simple_data, clock, outcomes,
                   failure, stoppedAt>>

\* collect_trending_searches returns and its record is appended
append_trending_data ==
    /\ pc = "called"
    /\ LET region == regions[i + 1]
           record == collect_trending_searches(config, region["code"],
                         region["name"], results, clock)
       IN /\ trending_data' = record
          /\ all_data' = [all_data EXCEPT !.trending_searches_data =
                             Append(@, record)]
    /\ events' = Append(events, Event("append", i))
    /\ pc' = "sleep"
    /\ UNCHANGED <<config_file, config, i, results, filename,
                   simple_filename, simple_data, writes, clock, outcomes,
                   failure, stoppedAt>>

\* time.sleep(2)
sleep_after_call ==
    /\ pc = "sleep"
    /\ clock' = clock + SleepAfterCall
    /\ events' = Append(events, Event("sleep", SleepAfterCall))
    /\ pc' = "region_end"
    /\ UNCHANGED <<config_file, config, all_data, i, results, trending_data,
                   filename, simple_filename, simple_data, writes, outcomes,
                   failure, stoppedAt>>

\* if i < len(regions): the long pause after the last region too
region_end_always_sleeps ==
    /\ pc = "region_end"
    /\ IF i < Len(regions)
       THEN /\ clock' = clock + SleepBetweenRegions
            /\ events' = Append(events, Event("sleep", SleepBetweenRegions))
       ELSE UNCHANGED <<clock, events>>
    /\ i' = i + 1
    /\ pc' = "loop"
    /\ UNCHANGED <<config_file, config, all_data, results, trending_data,
                   filename, simple_filename, simple_data, writes, outcomes,
                   failure, stoppedAt>>

\* if i < len(regions) - 1: time.sleep(3); then the next iteration
region_end ==
    /\ pc = "region_end"
    /\ IF i < Len(regions) - 1
       THEN /\ clock' = clock + SleepBetweenRegions
            /\ events' = Append(events, Event("sleep", SleepBetweenRegions))
       ELSE UNCHANGED <<clock, events>>
    /\ i' = i + 1
    /\ pc' = "loop"
    /\ UNCHANGED <<config_file, config, all_data, results, trending_data,
                   filename, simple_filename, simple_data, writes, outcomes,
                   failure, stoppedAt>>

\* save_to_json: the full file
save_full ==
    /\ pc = "save"
    /\ filename' = Get(config, "output_file", DefaultOutputFile)
    /\ \/ /\ writes' = Append(writes, [path |-> filename', kind |-> "full"])
          /\ pc' = "save_simple"
          /\ UNCHANGED <<failure, stoppedAt>>
       \/ /\ Fail("OSError")
          /\ UNCHANGED writes
    /\ UNCHANGED <<config_file, config, all_data, i, results, trending_data,
                   simple_filename, simple_data, clock, events, outcomes>>

\* save_to_json: the simplified file
save_simple ==
    /\ pc = "save_simple"
    /\ simple_data' = create_simple_format(all_data)
    /\ simple_filename' = simple_name(filename)
    /\ \/ /\ writes' = Append(writes, [path |-> simple_filename',
                                        kind |-> "simple"])
          /\ pc' = "done"
          /\ UNCHANGED <<failure, stoppedAt>>
       \/ /\ Fail("OSError")
          /\ UNCHANGED writes
    /\ UNCHANGED <<config_file, config, all_data, i, results, trending_data,
                   filename, clock, events, outcomes>>

\* the process is interrupted (nothing catches BaseException)
interrupt ==
    /\ pc \notin {"done", "failed", "interrupted"}
    /\ pc' = "interrupted"
    /\ stoppedAt' = pc
    /\ UNCHANGED <<config_file, config, all_data, i, results, trending_data,
                   filename, simple_filename, simple_data, writes, clock,
                   events, outcomes, failure>>

Next ==
    \/ TrendsCollector_init
    \/ collect_all_trends_begin
    \/ collect_all_trends_return
    \/ skip_region
    \/ call_api
    \/ append_trending_data
    \/ sleep_after_call
    \/ region_end
    \/ save_full
    \/ save_simple
    \/ interrupt

Spec == Init /\ [][Next]_vars

----------------------------------------------------------------------------
(* The normalizer alone: collect_trending_searches after get_dict() answered, *)
(* for one region, every count and every answer up to MaxItems items          *)

NormConfigs ==
    {("serpapi_key" :> "k") @@ ("keywords" :> <<"python">>)
        @@ ("regions" :> <<r>>) @@ ("trending_searches" :> t) :
        r \in Regions,
        t \in {[enabled |-> TRUE]}
              \cup {[enabled |-> TRUE, count |-> c] : c \in Counts}}

NormOutcomes ==
    Outcomes(Items, MaxItems)
    \cup {[returns |-> ("trending_searches" :> <<ItemA>>) @@ ("error" :> e)] :
            e \in ApiErrors}

InitNorm ==
    /\ pc = "called"
    /\ config \in NormConfigs
    /\ config_file = [status |-> "ok", doc |-> config]
    /\ all_data = new_all_data(config, 0)
    /\ i = 0
    /\ results \in NormOutcomes
    /\ trending_data = EmptyDict
    /\ filename = <<>>
    /\ simple_filename = <<>>
    /\ simple_data = EmptyDict
    /\ writes = <<>>
    /\ clock = 0
    /\ events = <<Event("region", 0), Event("call", 0)>>
    /\ outcomes = <<results>>
    /\ failure = "none"
    /\ stoppedAt = "none"

NextNorm == append_trending_data

SpecNorm == InitNorm /\ [][NextNorm]_vars

----------------------------------------------------------------------------
(* The writer alone: save_to_json for every output path of Paths *)

PathConfigs ==
    {("serpapi_key" :> "k") @@ ("keywords" :> <<"python">>)
        @@ ("regions" :> <<>>) @@ ("output_file" :> p) : p \in Paths}

InitPath ==
    /\ pc = "save"
    /\ config \in PathConfigs
    /\ config_file = [status |-> "ok", doc |-> config]
    /\ all_data = new_all_data(config, 0)
    /\ i = 0
    /\ results = NoOutcome
    /\ trending_data = EmptyDict
    /\ filename = <<>>
    /\ simple_filename = <<>>
    /\ simple_data = EmptyDict
    /\ writes = <<>>
    /\ clock = 0
    /\ events = <<>>
    /\ outcomes = <<>>
    /\ failure = "none"
    /\ stoppedAt = "none"

NextPath == save_full \/ save_simple

SpecPath == InitPath /\ [][NextPath]_vars

----------------------------------------------------------------------------
(* Properties *)

tsd == all_data.trending_searches_data

Collecting == Has(all_data, "trending_searches_data")

InLoop == {"loop", "called", "sleep", "region_end"}

\* collect_all_trends has returned
LoopOver ==
    \/ pc \in {"save", "save_simple", "done"}
    \/ pc \in {"failed", "interrupted"} /\ stoppedAt \in {"save", "save_simple"}

ConfiguredCount ==
    Get(Get(config, "trending_searches", EmptyDict), "count", 20)

HasList(o) == Has(o, "returns") /\ Has(o.returns, "trending_searches")

\* the call raised, or an item met by the normalizer is not a mapping
RegionFailed(o) ==
    \/ Has(o, "raises")
    \/ /\ HasList(o)
       /\ \E j \in 1..Len(o.returns.trending_searches) :
             j <= ConfiguredCount /\ ~ IsMapping(o.returns.trending_searches[j])

ExceptionFields ==
    {"region_name", "region_code", "error", "collection_time", "source"}

\* C1: with trending enabled the run holds one record per configured region,
\* the k-th record carrying the code and name of the k-th region, whatever
\* the API calls returned or raised.
C1_OneRecordPerRegion ==
    Collecting =>
        /\ \A k \in 1..Len(tsd) :
              /\ k <= Len(regions)
              /\ tsd[k].region_code = regions[k].code
              /\ tsd[k].region_name = regions[k].name
        /\ (LoopOver /\ trending_enabled) => Len(tsd) = Len(regions)

C1_Witness ==
    /\ pc = "done"
    /\ trending_enabled
    /\ Len(regions) = 2
    /\ regions[1] # regions[2]
    /\ Len(tsd) = 2
    /\ Has(outcomes[1], "raises")
    /\ HasList(outcomes[2])

\* the first n records are the first n items of the response, in order
PrefixOfResponse(n) ==
    /\ Has(trending_data, "trending_searches")
    /\ Len(trending_data.trending_searches) = n
    /\ \A j \in 1..n :
          LET item == results.returns.trending_searches[j]
          IN /\ IsMapping(item)
             /\ trending_data.trending_searches[j].query =
                    IF Has(item, "query") THEN item.query ELSE ""

\* C2 as stated: a response list of length M and a configured count K give
\* exactly min(M, K) records, the j-th with the query of the j-th item.
C2_Original ==
    (pc = "sleep" /\ HasList(results)) =>
        PrefixOfResponse(Min(Len(results.returns.trending_searches),
                             ConfiguredCount))

\* C2 amended: the same, for a count K >= 0 and a response whose first
\* min(M, K) items are mappings.
C2_PrefixOfResponse ==
    (/\ pc = "sleep"
     /\ HasList(results)
     /\ ConfiguredCount >= 0
     /\ \A j \in 1..Min(Len(results.returns.trending_searches),
                        ConfiguredCount) :
           IsMapping(results.returns.trending_searches[j])) =>
        PrefixOfResponse(Min(Len(results.returns.trending_searches),
                             ConfiguredCount))

C2_Witness ==
    /\ pc = "sleep"
    /\ HasList(results)
    /\ Len(results.returns.trending_searches) = 3
    /\ ConfiguredCount = 2
    /\ Has(trending_data, "trending_searches")
    /\ Len(trending_data.trending_searches) = 2
    /\ trending_data.trending_searches[1].query = "c"
    /\ trending_data.trending_searches[2].query = "a"

\* C3: a response without trending_searches gives a record with an empty
\* list, the fixed non-empty error message, and an api_error equal to the
\* response's error exactly when the response has one.
C3_NoDataRecord ==
    (/\ pc = "sleep"
     /\ Has(results, "returns")
     /\ ~ Has(results.returns, "trending_searches")) =>
        /\ Has(trending_data, "trending_searches")
        /\ trending_data.trending_searches = <<>>
        /\ Has(trending_data, "error")
        /\ trending_data.error = "Brak danych w odpowiedzi SerpAPI"
        /\ Has(trending_data, "api_error") <=> Has(results.returns, "error")
        /\ Has(results.returns, "error") =>
              trending_data.api_error = results.returns.error

C3_Witness ==
    /\ pc = "sleep"
    /\ Has(results, "returns")
    /\ ~ Has(results.returns, "trending_searches")
    /\ Has(results.returns, "error")
    /\ Has(trending_data, "api_error")
    /\ trending_data.api_error = "Quota exceeded"

\* C4: a region whose call or normalization raised is recorded with exactly
\* the fields region_name, region_code, error, collection_time and source,
\* the run does not fail inside the loop, and every later region is still
\* called and its record appended.
C4_FailureContained ==
    Collecting =>
        /\ \A k \in 1..Len(tsd) :
              RegionFailed(outcomes[k]) => DOMAIN tsd[k] = ExceptionFields
        /\ pc = "failed" => stoppedAt \notin InLoop
        /\ LoopOver =>
              \A k \in 1..Len(outcomes) :
                  RegionFailed(outcomes[k]) =>
                      \A m \in (k + 1)..Len(regions) :
                          /\ m <= Len(outcomes)
                          /\ m <= Len(tsd)
                          /\ tsd[m].region_code = regions[m].code

C4_Witness ==
    /\ pc = "done"
    /\ Len(regions) = 2
    /\ Len(outcomes) = 2
    /\ HasList(outcomes[1])
    /\ ~ Has(outcomes[1], "raises")
    /\ RegionFailed(outcomes[1])
    /\ Len(tsd) = 2
    /\ DOMAIN tsd[1] = ExceptionFields
    /\ ~ Has(tsd[2], "error")

\* C5: the simplified document has one region entry per region record, in
\* the same order; an entry has as many trending_queries as its record has
\* trending_searches (none for a record without the list); a query's
\* category is the name of the first category, "Unknown" without categories.
C5_SimpleFormat ==
    pc = "done" =>
        /\ Len(simple_data.regions) = Len(tsd)
        /\ \A k \in 1..Len(tsd) :
              LET entry == simple_data.regions[k]
                  source == IF Has(tsd[k], "trending_searches")
                            THEN tsd[k].trending_searches ELSE <<>>
              IN /\ entry.region_code = tsd[k].region_code
                 /\ entry.region_name = tsd[k].region_name
                 /\ Len(entry.trending_queries) = Len(source)
                 /\ \A j \in 1..Len(source) :
                       /\ entry.trending_queries[j].query = source[j].query
                       /\ source[j].categories = <<>> =>
                             entry.trending_queries[j].category = "Unknown"
                       /\ (/\ source[j].categories # <<>>
                           /\ Has(source[j].categories[1], "name")) =>
                             entry.trending_queries[j].category =
                                 source[j].categories[1].name

C5_Witness ==
    /\ pc = "done"
    /\ Len(tsd) = 2
    /\ ~ Has(tsd[1], "trending_searches")
    /\ Has(tsd[2], "trending_searches")
    /\ Len(tsd[2].trending_searches) = 2
    /\ Len(simple_data.regions) = 2
    /\ simple_data.regions[2].trending_queries[1].category = "News"
    /\ simple_data.regions[2].trending_queries[2].category = "Unknown"

\* the index of the dot that starts the extension of the last path
\* component, 0 for a path without extension
ExtensionStart(path) ==
    LET dots == {k \in 1..Len(path) :
                    /\ path[k] = "."
                    /\ \A m \in k..Len(path) : path[m] # "/"}
    IN IF dots = {} THEN 0 ELSE CHOOSE k \in dots : \A m \in dots : m <= k

\* "_simple" inserted once, immediately before the extension
InsertBeforeExtension(path) ==
    LET e == ExtensionStart(path)
        suffix == <<"_", "s", "i", "m", "p", "l", "e">>
    IN IF e = 0 THEN path \o suffix
       ELSE SubSeq(path, 1, e - 1) \o suffix \o SubSeq(path, e, Len(path))

\* C6: the simplified path is the full path with "_simple" inserted once,
\* immediately before the file extension, and is never the full path.
C6_SimplePath ==
    (pc = "done" \/ stoppedAt = "save_simple") =>
        /\ simple_filename = InsertBeforeExtension(filename)
        /\ simple_filename # filename

ConfigurationFailures ==
    {"FileNotFoundError", "YAMLError", "AttributeError", "ValueError",
     "KeyError"}

C8_OnlyApiKeyRequired ==
    (/\ config_file.status = "ok"
     /\ Get(config_file.doc, "serpapi_key", "") # "") =>
        failure \notin {"KeyError", "ValueError"}

\* C9: nothing is written before every region has been processed, the full
\* file is written before the simplified one and each once, and a run that
\* stopped before collect_all_trends returned has written nothing.
C9_WrittenOnceAtEnd ==
    /\ writes # <<>> =>
          /\ LoopOver
          /\ i >= Len(regions)
          /\ trending_enabled => Len(tsd) = Len(regions)
    /\ Len(writes) <= 2
    /\ Len(writes) >= 1 => writes[1].kind = "full"
    /\ Len(writes) = 2 => writes[2].kind = "simple"
    /\ (pc \in {"failed", "interrupted"} /\ ~ LoopOver) => writes = <<>>

C9_Witness ==
    /\ pc = "done"
    /\ trending_enabled
    /\ Len(regions) = 2
    /\ Len(writes) = 2
    /\ writes[1].path = writes[2].path

IsEvent(k, kind) == events[k].kind = kind

\* C10: regions are processed one after the other in configured order; with
\* trending enabled each gets exactly one API call (none when disabled); a
\* call is followed by the append of its record and then a pause of 2; the
\* call for a region follows the append of the previous one; a pause of 3
\* precedes every region but the first and none follows the last; two calls
\* are at least 5 time-units of pause apart.
C10_SequentialRateLimited ==
    LET n == Len(events)
    IN /\ \A k \in 1..n :
             IsEvent(k, "region") =>
                 /\ events[k].arg =
                        Cardinality({m \in 1..(k - 1) : IsEvent(m, "region")})
                 /\ trending_enabled =>
                        k < n /\ events[k + 1] =
                            [kind |-> "call", arg |-> events[k].arg,
                             at |-> events[k].at]
                 /\ events[k].arg > 0 =>
                        events[k - 1].kind = "sleep" /\ events[k - 1].arg = 3
       /\ \A k \in 1..n :
             IsEvent(k, "call") =>
                 /\ trending_enabled
                 /\ k > 1 /\ IsEvent(k - 1, "region")
                 /\ events[k - 1].arg = events[k].arg
                 /\ k < n => IsEvent(k + 1, "append")
                             /\ events[k + 1].arg = events[k].arg
                 /\ events[k].arg > 0 =>
                        \E m \in 1..(k - 1) :
                            IsEvent(m, "append")
                            /\ events[m].arg = events[k].arg - 1
                 /\ \A m \in 1..(k - 1) :
                        IsEvent(m, "call") => events[k].at - events[m].at >= 5
       /\ \A k \in 1..n :
             (IsEvent(k, "append") /\ k < n) =>
                 events[k + 1].kind = "sleep" /\ events[k + 1].arg = 2
       /\ \A k \in 1..n :
             (IsEvent(k, "sleep") /\ events[k].arg = 3) =>
                 /\ k < n => IsEvent(k + 1, "region")
                 /\ LoopOver => k < n
       /\ (LoopOver /\ Has(config, "regions")) =>
             /\ Cardinality({k \in 1..n : IsEvent(k, "region")}) = Len(regions)
             /\ Cardinality({k \in 1..n : IsEvent(k, "call")}) =
                    IF trending_enabled THEN Len(regions) ELSE 0
             /\ Cardinality({k \in 1..n : events[k] =
                    [kind |-> "sleep", arg |-> 2, at |-> events[k].at]}) =
                    IF trending_enabled THEN Len(regions) ELSE 0

C10_Witness ==
    /\ pc = "done"
    /\ trending_enabled
    /\ Len(regions) = 2
    /\ clock = 7
    /\ events[Len(events)].kind = "sleep"
    /\ events[Len(events)].arg = 2

====
